---- MODULE Spec2Model ----
(***************************************************************************)
(* Multi-operand summation of radix ciphertexts (tfhe integer server key,  *)
(* radix_parallel/sum.rs) over the carry-propagation protocol.             *)
(*                                                                         *)
(* A ciphertext block is modelled by its plaintext and its degree: the     *)
(* record [val, deg].  A radix ciphertext is a sequence of blocks, least   *)
(* significant first.  Option<T> is a sequence of length 0 (None) or 1     *)
(* (Some).                                                                 *)
(***************************************************************************)
EXTENDS Integers, Sequences, FiniteSets, TLC

VARIABLES
    message_modulus,   \* self.key.message_modulus of the server key
    carry_modulus,     \* self.key.carry_modulus of the server key
    op,                \* the entry point that was called
    given,             \* the caller's terms as they were when the call was made
    ciphertexts,       \* the caller's terms now (the smart_ entry points write them)
    pc,                \* "call" | "loop" | "done" | "panic"
    columns,           \* the reducer's columns of blocks
    output_carries,    \* carries of the last column collected by the reducer
    rounds,            \* iterations of the reduction loop so far (exact below MaxRounds)
    partial,           \* Option: what the column reducer returned
    result,            \* Option: the radix the entry point returned
    overflowed,        \* Option: the overflow flag the entry point returned
    panic,             \* the message of the assertion that failed, "" if none
    \* one round of the loop run task by task
    tasks_done,        \* the columns whose task of the current round has finished
    columns_buffer,    \* what the finished tasks returned, by column
    column_output_buffer, \* the out_buf the finished tasks filled, by column
    \* the carry propagator, run on one radix by both algorithms
    radix_lwe_input,   \* the radix to propagate
    carry_in,          \* the injected initial carry (0 when uses_carry is 0)
    requested_flag,    \* OutputFlag: "None" | "Carry"
    phase,             \* "idle" | "chain" | "signals" | "prefix" | "combine" | "finished"
    chain_pos,         \* sequential chain: the block visited next
    chain_carry,       \* sequential chain: the carry of the previous step
    chain_blocks,      \* sequential chain: the clean blocks so far
    chain_flag,        \* sequential chain: Option, the flag
    generates,         \* parallel prefix: the generate signal of every lane
    propagates,        \* parallel prefix: the propagate signal of every lane
    stride,            \* parallel prefix: the distance of the next round
    prefix_rounds,     \* parallel prefix: rounds run so far
    prefix_blocks,     \* parallel prefix: the clean blocks
    prefix_flag,       \* parallel prefix: Option, the flag
    \* one round of the parallel prefix run lane by lane
    lanes_done,        \* the lanes whose combination of the current round has finished
    generates_buffer,  \* the generate signals the finished lanes produced, by lane
    propagates_buffer  \* the propagate signals the finished lanes produced, by lane

taskVars == <<tasks_done, columns_buffer, column_output_buffer>>

sumVars == <<op, given, ciphertexts, pc, columns,
             output_carries, rounds, partial, result, overflowed, panic, taskVars>>

laneVars == <<lanes_done, generates_buffer, propagates_buffer>>

propVars == <<radix_lwe_input, carry_in, requested_flag, phase, chain_pos, chain_carry,
              chain_blocks, chain_flag, generates, propagates, stride, prefix_rounds,
              prefix_blocks, prefix_flag, laneVars>>

vars == <<message_modulus, carry_modulus, sumVars, propVars>>

(***************************************************************************)
(* Bounds of the model.                                                    *)
(***************************************************************************)
NumBlocks == 2
MaxTerms == 4
MaxPropBlocks == 4
MaxWideTerms == 22
MaxRounds == 12

(***************************************************************************)
(* Arithmetic helpers.                                                     *)
(***************************************************************************)
RECURSIVE Pow(_, _)
Pow(b, e) == IF e = 0 THEN 1 ELSE b * Pow(b, e - 1)

RECURSIVE SumSeq(_)
SumSeq(s) == IF s = <<>> THEN 0 ELSE Head(s) + SumSeq(Tail(s))

None == <<>>
Some(x) == <<x>>

(***************************************************************************)
(* The block engine (shortint server key): single-block primitives.        *)
(***************************************************************************)
Block(v, d) == [val |-> v, deg |-> d]

\* the plaintext space of one block: message_modulus * carry_modulus
total_modulus == message_modulus * carry_modulus

create_trivial(v) == Block(v % total_modulus, v % total_modulus)

\* plain addition: no bootstrap; the plaintext wraps at the block's capacity
unchecked_add(a, b) == Block((a.val + b.val) % total_modulus, a.deg + b.deg)

message_extract(b) == Block(b.val % message_modulus, message_modulus - 1)

carry_extract(b) == Block(b.val \div message_modulus, carry_modulus - 1)

max_sum_size(degree) == (total_modulus - 1) \div degree

(***************************************************************************)
(* Radix ciphertexts.                                                      *)
(***************************************************************************)
block_carries_are_empty(ct) == \A i \in 1..Len(ct) : ct[i].deg < message_modulus

create_trivial_radix(v, n) ==
    [i \in 1..n |-> create_trivial((v \div Pow(message_modulus, i - 1)) % message_modulus)]

\* a fresh encryption of v on n blocks: every block has degree message_modulus - 1
Encrypt(v, n) ==
    [i \in 1..n |-> Block((v \div Pow(message_modulus, i - 1)) % message_modulus,
                          message_modulus - 1)]

\* the integer obtained by decrypting every block (message and carry) and
\* recomposing in base message_modulus, before the reduction to n blocks
Recompose(ct) == SumSeq([i \in 1..Len(ct) |-> ct[i].val * Pow(message_modulus, i - 1)])

\* the integer a radix represents
Decrypt(ct) == Recompose(ct) % Pow(message_modulus, Len(ct))

unchecked_add_radix(a, b) == [i \in 1..Len(a) |-> unchecked_add(a[i], b[i])]

(***************************************************************************)
(* The carry propagator, sequential chain: blocks are visited from the     *)
(* least significant one; each is combined with the carry of the previous  *)
(* step and split into a clean block and the next carry.                   *)
(***************************************************************************)
RECURSIVE ChainFrom(_, _, _)
ChainFrom(ct, i, carry) ==
    IF i > Len(ct)
    THEN [blocks |-> <<>>, carry |-> carry]
    ELSE LET t    == ct[i].val + carry
             rest == ChainFrom(ct, i + 1, t \div message_modulus)
         IN  [blocks |-> <<Block(t % message_modulus, message_modulus - 1)>> \o rest.blocks,
              carry  |-> rest.carry]

SequentialChain(ct, initial_carry) == ChainFrom(ct, 1, initial_carry)

full_propagate_parallelized(ct) == SequentialChain(ct, 0).blocks

\* what the default (fully checked) two-operand operations do to an operand
\* before they use it
Propagated(ct) ==
    IF block_carries_are_empty(ct) THEN ct ELSE full_propagate_parallelized(ct)

add_parallelized(a, b) ==
    full_propagate_parallelized(unchecked_add_radix(Propagated(a), Propagated(b)))

unsigned_overflowing_add_parallelized(a, b) ==
    LET s == SequentialChain(unchecked_add_radix(Propagated(a), Propagated(b)), 0)
    IN  [result |-> s.blocks, overflowed |-> s.carry # 0]

scalar_ne_parallelized(ct, scalar) == Recompose(ct) # scalar

boolean_bitor(a, b) == a \/ b

(***************************************************************************)
(* The column reducer: unchecked_partial_sum_ciphertexts_vec_parallelized. *)
(***************************************************************************)
num_elements_to_fill_carry == max_sum_size(message_modulus - 1)

\* columns[i] collects, in the order of the terms, block i of every term
\* whose degree is not 0
Partition(terms, num_blocks) ==
    [i \in 1..num_blocks |->
        SelectSeq([t \in 1..Len(terms) |-> terms[t][i]], LAMBDA b : b.deg # 0)]

\* at_least_one_column_has_enough_elements with a slip: a column of exactly
\* num_elements_to_fill_carry blocks counts as too long
at_least_one_column_is_full(cols) ==
    \E i \in 1..Len(cols) : Len(cols[i]) >= num_elements_to_fill_carry

at_least_one_column_has_enough_elements(cols) ==
    \E i \in 1..Len(cols) : Len(cols[i]) > num_elements_to_fill_carry

\* the plain sum of a non-empty sequence of blocks, folded from the first one
RECURSIVE AddAll(_)
AddAll(blks) ==
    IF Len(blks) = 1 THEN blks[1]
    ELSE unchecked_add(AddAll(SubSeq(blks, 1, Len(blks) - 1)), blks[Len(blks)])

\* one chunk of a column: the message block and, maybe, the carry block
\* (column_index counts from 0, as in the source)
ChunkOutput(chunk, column_index, num_columns, collect) ==
    LET sum == AddAll(chunk)
    IN  IF (column_index < num_columns - 1) \/ collect
        THEN [msg |-> message_extract(sum), carry |-> Some(carry_extract(sum))]
        ELSE [msg |-> message_extract(sum), carry |-> None]

\* ColumnOutput with a slip: a column of exactly num_elements_to_fill_carry
\* blocks is left alone, as a shorter one is
ColumnOutputSkipsFull(column, column_index, num_columns, collect) ==
    IF Len(column) <= num_elements_to_fill_carry
    THEN <<>>
    ELSE [c \in 1..(Len(column) \div num_elements_to_fill_carry) |->
            ChunkOutput(SubSeq(column, (c - 1) * num_elements_to_fill_carry + 1,
                               c * num_elements_to_fill_carry),
                        column_index, num_columns, collect)]

\* the out_buf a column's task fills: one entry per full chunk
ColumnOutput(column, column_index, num_columns, collect) ==
    IF Len(column) < num_elements_to_fill_carry
    THEN <<>>
    ELSE [c \in 1..(Len(column) \div num_elements_to_fill_carry) |->
            ChunkOutput(SubSeq(column, (c - 1) * num_elements_to_fill_carry + 1,
                               c * num_elements_to_fill_carry),
                        column_index, num_columns, collect)]

\* ColumnRest with a slip: the column is truncated without the rotation, so
\* the first blocks are kept in place of the last ones
ColumnRestNoRotate(column) ==
    IF Len(column) < num_elements_to_fill_carry
    THEN column
    ELSE SubSeq(column, 1, Len(column) % num_elements_to_fill_carry)

\* what a column's task leaves of the column: the blocks after the last full chunk
ColumnRest(column) ==
    IF Len(column) < num_elements_to_fill_carry
    THEN column
    ELSE SubSeq(column, Len(column) - (Len(column) % num_elements_to_fill_carry) + 1,
                Len(column))

MsgsOf(out) == [k \in 1..Len(out) |-> out[k].msg]

RECURSIVE CarriesOf(_)
CarriesOf(out) ==
    IF out = <<>> THEN <<>> ELSE Head(out).carry \o CarriesOf(Tail(out))

\* RoundColumns with a slip: a carry is pushed to the column it came from
RoundColumnsCarryStays(cols, collect) ==
    LET n      == Len(cols)
        out(i) == ColumnOutput(cols[i], i - 1, n, collect)
    IN  [i \in 1..n |->
            ColumnRest(cols[i])
            \o (IF i < n THEN CarriesOf(out(i)) ELSE <<>>)
            \o MsgsOf(out(i))]

\* the columns after one iteration of the loop: for column i, what its task
\* left, then the carries of column i - 1, then its own messages
RoundColumns(cols, collect) ==
    LET n      == Len(cols)
        out(i) == ColumnOutput(cols[i], i - 1, n, collect)
    IN  [i \in 1..n |->
            ColumnRest(cols[i])
            \o (IF i > 1 THEN CarriesOf(out(i - 1)) ELSE <<>>)
            \o MsgsOf(out(i))]

\* RoundCarries with a slip: the carries of the last column are dropped also
\* when the caller passed a vector for them
RoundCarriesDropped(cols, collect) == <<>>

\* the carries of the last column that one iteration pushes to output_carries
RoundCarries(cols, collect) ==
    IF collect
    THEN CarriesOf(ColumnOutput(cols[Len(cols)], Len(cols) - 1, Len(cols), collect))
    ELSE <<>>

\* Reconstruct with a slip: the first block of a column is taken, the other
\* blocks are not added to it
ReconstructFirstOnly(cols) ==
    [i \in 1..Len(cols) |->
        IF cols[i] = <<>> THEN create_trivial(0) ELSE cols[i][1]]

\* Reconstruct with a slip: an empty column gives no block
ReconstructSkipsEmpty(cols) ==
    LET kept == SelectSeq(cols, LAMBDA col : col # <<>>)
    IN  [i \in 1..Len(kept) |-> AddAll(kept[i])]

\* the radix rebuilt from the columns once no column is too long
Reconstruct(cols) ==
    [i \in 1..Len(cols) |->
        IF cols[i] = <<>> THEN create_trivial(0) ELSE AddAll(cols[i])]

NoBlocksMsg == "Not all ciphertexts have the same number of blocks"
CarriesMsg == "All ciphertexts must have empty carries"
ResultCarriesMsg == "assertion failed: result.block_carries_are_empty()"

SameNumBlocks(terms) == \A t \in 2..Len(terms) : Len(terms[t]) = Len(terms[1])

Outcome(k, v, f, c, m) == [kind |-> k, value |-> v, flag |-> f, columns |-> c, msg |-> m]

\* PartialStart with a slip: the empty list gives an empty radix, not None
PartialStartEmptyRadix(terms) ==
    IF terms = <<>> THEN Outcome("return", Some(<<>>), None, <<>>, "")
    ELSE IF Len(terms) = 1 THEN Outcome("return", Some(terms[1]), None, <<>>, "")
    ELSE IF ~SameNumBlocks(terms) THEN Outcome("panic", None, None, <<>>, NoBlocksMsg)
    ELSE IF Len(terms) = 2
         THEN Outcome("return", Some(add_parallelized(terms[1], terms[2])), None, <<>>, "")
    ELSE IF ~(\A t \in 1..Len(terms) : block_carries_are_empty(terms[t]))
         THEN Outcome("panic", None, None, <<>>, CarriesMsg)
    ELSE LET num_blocks == Len(terms[1])
             cols       == Partition(terms, num_blocks)
         IN  IF \A i \in 1..num_blocks : cols[i] = <<>>
             THEN Outcome("return", Some(create_trivial_radix(0, num_blocks)), None, <<>>, "")
             ELSE Outcome("loop", None, None, cols, "")

\* PartialStart with a slip: a single term is not returned early, it goes
\* through the assertion and the columns as longer lists do
PartialStartNoSingleton(terms) ==
    IF terms = <<>> THEN Outcome("return", None, None, <<>>, "")
    ELSE IF ~SameNumBlocks(terms) THEN Outcome("panic", None, None, <<>>, NoBlocksMsg)
    ELSE IF Len(terms) = 2
         THEN Outcome("return", Some(add_parallelized(terms[1], terms[2])), None, <<>>, "")
    ELSE IF ~(\A t \in 1..Len(terms) : block_carries_are_empty(terms[t]))
         THEN Outcome("panic", None, None, <<>>, CarriesMsg)
    ELSE LET num_blocks == Len(terms[1])
             cols       == Partition(terms, num_blocks)
         IN  IF \A i \in 1..num_blocks : cols[i] = <<>>
             THEN Outcome("return", Some(create_trivial_radix(0, num_blocks)), None, <<>>, "")
             ELSE Outcome("loop", None, None, cols, "")

\* PartialStart with a slip: the assertion on the carries comes before the
\* two-term path
PartialStartAssertFirst(terms) ==
    IF terms = <<>> THEN Outcome("return", None, None, <<>>, "")
    ELSE IF Len(terms) = 1 THEN Outcome("return", Some(terms[1]), None, <<>>, "")
    ELSE IF ~SameNumBlocks(terms) THEN Outcome("panic", None, None, <<>>, NoBlocksMsg)
    ELSE IF ~(\A t \in 1..Len(terms) : block_carries_are_empty(terms[t]))
         THEN Outcome("panic", None, None, <<>>, CarriesMsg)
    ELSE IF Len(terms) = 2
         THEN Outcome("return", Some(add_parallelized(terms[1], terms[2])), None, <<>>, "")
    ELSE LET num_blocks == Len(terms[1])
             cols       == Partition(terms, num_blocks)
         IN  IF \A i \in 1..num_blocks : cols[i] = <<>>
             THEN Outcome("return", Some(create_trivial_radix(0, num_blocks)), None, <<>>, "")
             ELSE Outcome("loop", None, None, cols, "")

\* PartialStart with a slip: the assertion on the carries comes before the
\* assertion on the block counts
PartialStartCarriesFirst(terms) ==
    IF terms = <<>> THEN Outcome("return", None, None, <<>>, "")
    ELSE IF Len(terms) = 1 THEN Outcome("return", Some(terms[1]), None, <<>>, "")
    ELSE IF Len(terms) > 2 /\ ~(\A t \in 1..Len(terms) : block_carries_are_empty(terms[t]))
         THEN Outcome("panic", None, None, <<>>, CarriesMsg)
    ELSE IF ~SameNumBlocks(terms) THEN Outcome("panic", None, None, <<>>, NoBlocksMsg)
    ELSE IF Len(terms) = 2
         THEN Outcome("return", Some(add_parallelized(terms[1], terms[2])), None, <<>>, "")
    ELSE LET num_blocks == Len(terms[1])
             cols       == Partition(terms, num_blocks)
         IN  IF \A i \in 1..num_blocks : cols[i] = <<>>
             THEN Outcome("return", Some(create_trivial_radix(0, num_blocks)), None, <<>>, "")
             ELSE Outcome("loop", None, None, cols, "")

\* PartialStart with a slip: the carries of the terms are not asserted
PartialStartNoCarriesAssert(terms) ==
    IF terms = <<>> THEN Outcome("return", None, None, <<>>, "")
    ELSE IF Len(terms) = 1 THEN Outcome("return", Some(terms[1]), None, <<>>, "")
    ELSE IF ~SameNumBlocks(terms) THEN Outcome("panic", None, None, <<>>, NoBlocksMsg)
    ELSE IF Len(terms) = 2
         THEN Outcome("return", Some(add_parallelized(terms[1], terms[2])), None, <<>>, "")
    ELSE LET num_blocks == Len(terms[1])
             cols       == Partition(terms, num_blocks)
         IN  IF \A i \in 1..num_blocks : cols[i] = <<>>
             THEN Outcome("return", Some(create_trivial_radix(0, num_blocks)), None, <<>>, "")
             ELSE Outcome("loop", None, None, cols, "")

\* the reducer up to the loop: what it returns at once ("return"), the
\* assertion it fails ("panic"), or the columns it enters the loop with ("loop")
PartialStart(terms) ==
    IF terms = <<>> THEN Outcome("return", None, None, <<>>, "")
    ELSE IF Len(terms) = 1 THEN Outcome("return", Some(terms[1]), None, <<>>, "")
    ELSE IF ~SameNumBlocks(terms) THEN Outcome("panic", None, None, <<>>, NoBlocksMsg)
    ELSE IF Len(terms) = 2
         THEN Outcome("return", Some(add_parallelized(terms[1], terms[2])), None, <<>>, "")
    ELSE IF ~(\A t \in 1..Len(terms) : block_carries_are_empty(terms[t]))
         THEN Outcome("panic", None, None, <<>>, CarriesMsg)
    ELSE LET num_blocks == Len(terms[1])
             cols       == Partition(terms, num_blocks)
         IN  IF \A i \in 1..num_blocks : cols[i] = <<>>
             THEN Outcome("return", Some(create_trivial_radix(0, num_blocks)), None, <<>>, "")
             ELSE Outcome("loop", None, None, cols, "")

\* UncheckedSumTail with a slip: the result is returned as the reducer left it
UncheckedSumTailUnpropagated(p) ==
    IF p = None THEN Outcome("return", None, None, <<>>, "")
    ELSE Outcome("return", Some(p[1]), None, <<>>, "")

\* unchecked_sum_ciphertexts_vec_parallelized, after the reducer returned p
UncheckedSumTail(p) ==
    IF p = None THEN Outcome("return", None, None, <<>>, "")
    ELSE LET res == full_propagate_parallelized(p[1])
         IN  IF block_carries_are_empty(res)
             THEN Outcome("return", Some(res), None, <<>>, "")
             ELSE Outcome("panic", None, None, <<>>, ResultCarriesMsg)

\* OverflowingStart with a slip: a list of two terms is handed on to the
\* reducer, as the longer lists are
OverflowingStartNoPair(terms) ==
    IF terms = <<>> THEN Outcome("return", None, None, <<>>, "")
    ELSE IF Len(terms) = 1
         THEN Outcome("return", Some(terms[1]), Some(create_trivial(0).val # 0), <<>>, "")
    ELSE IF ~SameNumBlocks(terms) THEN Outcome("panic", None, None, <<>>, NoBlocksMsg)
    ELSE Outcome("call", None, None, <<>>, "")

\* unchecked_unsigned_overflowing_sum_ciphertexts_vec_parallelized before it
\* calls the reducer: the lists of fewer than three terms ("call": go on)
OverflowingStart(terms) ==
    IF terms = <<>> THEN Outcome("return", None, None, <<>>, "")
    ELSE IF Len(terms) = 1
         THEN Outcome("return", Some(terms[1]), Some(create_trivial(0).val # 0), <<>>, "")
    ELSE IF ~SameNumBlocks(terms) THEN Outcome("panic", None, None, <<>>, NoBlocksMsg)
    ELSE IF Len(terms) = 2
         THEN LET r == unsigned_overflowing_add_parallelized(terms[1], terms[2])
              IN  Outcome("return", Some(r.result), Some(r.overflowed), <<>>, "")
    ELSE Outcome("call", None, None, <<>>, "")

\* OverflowingTail with a slip: the collected carries are not looked at
OverflowingTailAddOnly(p, carries) ==
    IF p = None THEN Outcome("return", None, None, <<>>, "")
    ELSE LET un_propagated_result == p[1]
             num_blocks     == Len(un_propagated_result)
             message_blocks == [i \in 1..num_blocks |-> message_extract(un_propagated_result[i])]
             extracted      == [i \in 1..num_blocks |-> carry_extract(un_propagated_result[i])]
             carry_blocks   == <<create_trivial(0)>> \o SubSeq(extracted, 1, num_blocks - 1)
             added          == unsigned_overflowing_add_parallelized(message_blocks, carry_blocks)
         IN  Outcome("return", Some(added.result), Some(added.overflowed), <<>>, "")

\* OverflowingTail with a slip: the carries are not shifted up by one
\* position, the carry of block i is added to block i
OverflowingTailNoShift(p, carries) ==
    IF p = None THEN Outcome("return", None, None, <<>>, "")
    ELSE LET un_propagated_result == p[1]
             num_blocks     == Len(un_propagated_result)
             message_blocks == [i \in 1..num_blocks |-> message_extract(un_propagated_result[i])]
             extracted      == [i \in 1..num_blocks |-> carry_extract(un_propagated_result[i])]
             all_carries    == Append(carries, extracted[num_blocks])
             added          == unsigned_overflowing_add_parallelized(message_blocks, extracted)
             kept           == SelectSeq(all_carries, LAMBDA b : b.deg # 0)
             any_sum_overflowed == scalar_ne_parallelized(kept, 0)
         IN  Outcome("return", Some(added.result),
                     Some(boolean_bitor(added.overflowed, any_sum_overflowed)), <<>>, "")

\* ... and after the reducer returned p, with the carries it collected
OverflowingTail(p, carries) ==
    IF p = None THEN Outcome("return", None, None, <<>>, "")
    ELSE LET un_propagated_result == p[1]
             num_blocks     == Len(un_propagated_result)
             message_blocks == [i \in 1..num_blocks |-> message_extract(un_propagated_result[i])]
             extracted      == [i \in 1..num_blocks |-> carry_extract(un_propagated_result[i])]
             all_carries    == Append(carries, extracted[num_blocks])
             carry_blocks   == <<create_trivial(0)>> \o SubSeq(extracted, 1, num_blocks - 1)
             added          == unsigned_overflowing_add_parallelized(message_blocks, carry_blocks)
             kept           == SelectSeq(all_carries, LAMBDA b : b.deg # 0)
             any_sum_overflowed == scalar_ne_parallelized(kept, 0)
         IN  IF block_carries_are_empty(added.result)
             THEN Outcome("return", Some(added.result),
                          Some(boolean_bitor(added.overflowed, any_sum_overflowed)), <<>>, "")
             ELSE Outcome("panic", None, None, <<>>, ResultCarriesMsg)

(***************************************************************************)
(* The entry points.                                                       *)
(***************************************************************************)
SumOps == {"unchecked_sum", "sum", "smart_sum"}
OverflowingOps == {"unchecked_unsigned_overflowing_sum", "unsigned_overflowing_sum",
                   "smart_unsigned_overflowing_sum"}
Ops == {"unchecked_partial_sum"} \cup SumOps \cup OverflowingOps

\* output_carries.is_some(): only the overflowing sums pass a vector of carries
CollectsCarries(o) == o \in OverflowingOps

\* AfterReducer with a slip: the unchecked sum hands on what the reducer
\* returned, as the reducer's own entry point does
AfterReducerUncheckedRaw(o, p, carries) ==
    IF o \in SumOps \ {"unchecked_sum"} THEN UncheckedSumTail(p)
    ELSE IF o \in OverflowingOps THEN OverflowingTail(p, carries)
    ELSE Outcome("return", p, None, <<>>, "")

\* what the caller of the reducer does with the value p the reducer returned
AfterReducer(o, p, carries) ==
    IF o \in SumOps THEN UncheckedSumTail(p)
    ELSE IF o \in OverflowingOps THEN OverflowingTail(p, carries)
    ELSE Outcome("return", p, None, <<>>, "")

\* the vector the default sums build: clones of the terms; the terms that
\* pass the filter are propagated when their carries are not empty
DefaultClones(cts) ==
    [t \in 1..Len(cts) |->
        IF block_carries_are_empty(cts[t])
        THEN (IF ~block_carries_are_empty(cts[t])
              THEN full_propagate_parallelized(cts[t]) ELSE cts[t])
        ELSE cts[t]]

\* SmartPropagated with a slip: no term is propagated
SmartUnpropagated(cts) == cts

\* SmartPropagated with a slip: every term is propagated, also the Clean ones
SmartPropagatesAll(cts) == [t \in 1..Len(cts) |-> full_propagate_parallelized(cts[t])]

\* what the smart sums leave in the caller's terms
SmartPropagated(cts) ==
    [t \in 1..Len(cts) |->
        IF ~block_carries_are_empty(cts[t])
        THEN full_propagate_parallelized(cts[t]) ELSE cts[t]]

\* the state when an entry point stops with outcome f
Stop(f) ==
    /\ pc' = (IF f.kind = "panic" THEN "panic" ELSE "done")
    /\ result' = f.value
    /\ overflowed' = f.flag
    /\ panic' = f.msg

\* the reducer is called on terms by entry point o
CallReducer(o, terms) ==
    LET s == PartialStart(terms)
    IN  IF s.kind = "loop"
        THEN /\ pc' = "loop"
             /\ columns' = s.columns
             /\ UNCHANGED <<partial, result, overflowed, panic>>
        ELSE IF s.kind = "panic"
        THEN /\ Stop(s)
             /\ UNCHANGED <<columns, partial>>
        ELSE /\ partial' = Some(s.value)
             /\ Stop(AfterReducer(o, s.value, <<>>))
             /\ UNCHANGED columns

\* the overflowing sum is called on terms by entry point o
CallOverflowing(o, terms) ==
    LET s == OverflowingStart(terms)
    IN  IF s.kind = "call"
        THEN CallReducer(o, terms)
        ELSE /\ Stop(s)
             /\ UNCHANGED <<columns, partial>>

unchecked_partial_sum_ciphertexts_vec_parallelized ==
    /\ pc = "call" /\ op = "unchecked_partial_sum"
    /\ CallReducer(op, ciphertexts)
    /\ UNCHANGED <<message_modulus, carry_modulus, op, given, ciphertexts,
                   output_carries, rounds>>
    /\ UNCHANGED propVars
    /\ UNCHANGED taskVars

unchecked_sum_ciphertexts_parallelized ==
    /\ pc = "call" /\ op = "unchecked_sum"
    /\ CallReducer(op, ciphertexts)
    /\ UNCHANGED <<message_modulus, carry_modulus, op, given, ciphertexts,
                   output_carries, rounds>>
    /\ UNCHANGED propVars
    /\ UNCHANGED taskVars

sum_ciphertexts_parallelized ==
    /\ pc = "call" /\ op = "sum"
    /\ CallReducer(op, DefaultClones(ciphertexts))
    /\ UNCHANGED <<message_modulus, carry_modulus, op, given, ciphertexts,
                   output_carries, rounds>>
    /\ UNCHANGED propVars
    /\ UNCHANGED taskVars

smart_sum_ciphertexts_parallelized ==
    /\ pc = "call" /\ op = "smart_sum"
    /\ ciphertexts' = SmartPropagated(ciphertexts)
    /\ CallReducer(op, SmartPropagated(ciphertexts))
    /\ UNCHANGED <<message_modulus, carry_modulus, op, given, output_carries, rounds>>
    /\ UNCHANGED propVars
    /\ UNCHANGED taskVars

unchecked_unsigned_overflowing_sum_ciphertexts_parallelized ==
    /\ pc = "call" /\ op = "unchecked_unsigned_overflowing_sum"
    /\ CallOverflowing(op, ciphertexts)
    /\ UNCHANGED <<message_modulus, carry_modulus, op, given, ciphertexts,
                   output_carries, rounds>>
    /\ UNCHANGED propVars
    /\ UNCHANGED taskVars

unsigned_overflowing_sum_ciphertexts_parallelized ==
    /\ pc = "call" /\ op = "unsigned_overflowing_sum"
    /\ CallOverflowing(op, DefaultClones(ciphertexts))
    /\ UNCHANGED <<message_modulus, carry_modulus, op, given, ciphertexts,
                   output_carries, rounds>>
    /\ UNCHANGED propVars
    /\ UNCHANGED taskVars

smart_unsigned_overflowing_sum_ciphertexts_parallelized ==
    /\ pc = "call" /\ op = "smart_unsigned_overflowing_sum"
    /\ ciphertexts' = SmartPropagated(ciphertexts)
    /\ CallOverflowing(op, SmartPropagated(ciphertexts))
    /\ UNCHANGED <<message_modulus, carry_modulus, op, given, output_carries, rounds>>
    /\ UNCHANGED propVars
    /\ UNCHANGED taskVars

\* the count of iterations after one more: exact below MaxRounds; from there
\* on it alternates between MaxRounds - 1 and MaxRounds, so that an iteration
\* of a loop that runs on is a step and the count stays bounded
CountRound(r) == IF r < MaxRounds THEN r + 1 ELSE MaxRounds - 1

\* one iteration of the reducer's while loop
ReductionRound ==
    /\ pc = "loop"
    /\ at_least_one_column_has_enough_elements(columns)
    /\ columns' = RoundColumns(columns, CollectsCarries(op))
    /\ output_carries' = output_carries \o RoundCarries(columns, CollectsCarries(op))
    /\ rounds' = CountRound(rounds)
    /\ UNCHANGED <<message_modulus, carry_modulus, op, given, ciphertexts, pc,
                   partial, result, overflowed, panic>>
    /\ UNCHANGED propVars
    /\ UNCHANGED taskVars

\* the loop ends: the reducer rebuilds the radix and returns to its caller
ReducerReturn ==
    /\ pc = "loop"
    /\ ~at_least_one_column_has_enough_elements(columns)
    /\ partial' = Some(Some(Reconstruct(columns)))
    /\ Stop(AfterReducer(op, Some(Reconstruct(columns)), output_carries))
    /\ UNCHANGED <<message_modulus, carry_modulus, op, given, ciphertexts, columns,
                   output_carries, rounds>>
    /\ UNCHANGED propVars
    /\ UNCHANGED taskVars

(***************************************************************************)
(* One iteration of the loop, task by task: the columns are drained into   *)
(* one task per column, the tasks run in any order, and the blocks they    *)
(* produced are moved into the columns once all of them have returned.     *)
(***************************************************************************)
\* the out_buf of column i: empty until the column's task fills it
OutBuf(i) == IF i \in DOMAIN column_output_buffer THEN column_output_buffer[i] ELSE <<>>

\* the column the task of column i returned
ReturnedColumn(i) == IF i \in DOMAIN columns_buffer THEN columns_buffer[i] ELSE <<>>

\* TaskColumns with a slip: the task of column i pushes its carries to column
\* i + 1 itself, while the other tasks run
TaskColumnsEager(cols, i, out) ==
    [j \in 1..Len(cols) |-> IF j = i + 1 THEN cols[j] \o CarriesOf(out) ELSE cols[j]]

\* the columns the tasks still to run will take, after the task of column i
\* filled out: a task pushes nothing into another column
TaskColumns(cols, i, out) == cols

\* the task of column i: it takes its column and fills its out_buf
ColumnTask(i) ==
    /\ pc = "loop"
    /\ tasks_done # {} \/ at_least_one_column_has_enough_elements(columns)
    /\ i \in 1..Len(columns) /\ i \notin tasks_done
    /\ LET n   == Len(columns)
           out == ColumnOutput(columns[i], i - 1, n, CollectsCarries(op))
       IN  /\ column_output_buffer' = [j \in 1..n |-> IF j = i THEN out ELSE OutBuf(j)]
           /\ columns_buffer' =
                 [j \in 1..n |-> IF j = i THEN ColumnRest(columns[i]) ELSE ReturnedColumn(j)]
           /\ columns' = TaskColumns(columns, i, out)
    /\ tasks_done' = tasks_done \cup {i}
    /\ UNCHANGED <<message_modulus, carry_modulus, op, given, ciphertexts, pc,
                   output_carries, rounds, partial, result, overflowed, panic>>
    /\ UNCHANGED propVars

\* every task has returned: the returned columns become the columns, and the
\* messages and carries are moved where they belong, column by column
RoundJoin ==
    /\ pc = "loop"
    /\ tasks_done # {} /\ tasks_done = 1..Len(columns)
    /\ columns' = [i \in 1..Len(columns) |->
                      columns_buffer[i]
                      \o (IF i > 1 THEN CarriesOf(column_output_buffer[i - 1]) ELSE <<>>)
                      \o MsgsOf(column_output_buffer[i])]
    /\ output_carries' = output_carries \o CarriesOf(column_output_buffer[Len(columns)])
    /\ rounds' = CountRound(rounds)
    /\ tasks_done' = {}
    /\ columns_buffer' = <<>>
    /\ column_output_buffer' = <<>>
    /\ UNCHANGED <<message_modulus, carry_modulus, op, given, ciphertexts, pc,
                   partial, result, overflowed, panic>>
    /\ UNCHANGED propVars

(***************************************************************************)
(* The entry points as functions of their terms: the same steps, with the  *)
(* loop run to its end.                                                    *)
(***************************************************************************)
RECURSIVE ReduceLoop(_, _, _)
ReduceLoop(cols, carries, collect) ==
    IF at_least_one_column_has_enough_elements(cols)
    THEN ReduceLoop(RoundColumns(cols, collect),
                    carries \o RoundCarries(cols, collect), collect)
    ELSE [columns |-> cols, carries |-> carries]

\* the reducer and its caller's tail on the vector terms
RunReducer(o, terms) ==
    LET s == PartialStart(terms)
    IN  IF s.kind = "panic" THEN s
        ELSE IF s.kind = "return" THEN AfterReducer(o, s.value, <<>>)
        ELSE LET e == ReduceLoop(s.columns, <<>>, CollectsCarries(o))
             IN  AfterReducer(o, Some(Reconstruct(e.columns)), e.carries)

\* the vector an entry point hands on
Prepared(o, cts) ==
    IF o \in {"sum", "unsigned_overflowing_sum"} THEN DefaultClones(cts)
    ELSE IF o \in {"smart_sum", "smart_unsigned_overflowing_sum"} THEN SmartPropagated(cts)
    ELSE cts

\* the outcome of entry point o called on cts
EntryPoint(o, cts) ==
    LET terms == Prepared(o, cts)
        first == IF o \in OverflowingOps
                 THEN OverflowingStart(terms)
                 ELSE Outcome("call", None, None, <<>>, "")
    IN  IF first.kind = "call" THEN RunReducer(o, terms) ELSE first

(***************************************************************************)
(* The carry propagator run step by step: the sequential chain first, then *)
(* the parallel prefix (Hillis-Steele) on the same radix.                  *)
(***************************************************************************)
BoolBit(b) == IF b THEN 1 ELSE 0

\* one step of the sequential chain: block chain_pos is combined with the
\* carry of the previous step and split into a clean block and a new carry
ChainStep ==
    /\ phase = "chain"
    /\ chain_pos <= Len(radix_lwe_input)
    /\ LET t == radix_lwe_input[chain_pos].val + chain_carry
       IN  /\ chain_blocks' = Append(chain_blocks, Block(t % message_modulus, message_modulus - 1))
           /\ chain_carry' = t \div message_modulus
    /\ chain_pos' = chain_pos + 1
    /\ UNCHANGED <<message_modulus, carry_modulus, sumVars, radix_lwe_input, carry_in,
                   requested_flag, phase, chain_flag, generates, propagates, stride,
                   prefix_rounds, prefix_blocks, prefix_flag>>
    /\ UNCHANGED laneVars

\* the chain has visited every block: the flag is derived from the last carry
ChainEnd ==
    /\ phase = "chain"
    /\ chain_pos > Len(radix_lwe_input)
    /\ chain_flag' = (IF requested_flag = "Carry" THEN Some(chain_carry # 0) ELSE None)
    /\ phase' = "signals"
    /\ UNCHANGED <<message_modulus, carry_modulus, sumVars, radix_lwe_input, carry_in,
                   requested_flag, chain_pos, chain_carry, chain_blocks, generates,
                   propagates, stride, prefix_rounds, prefix_blocks, prefix_flag>>
    /\ UNCHANGED laneVars

\* the lookup that gives a block's signal pair: it generates a carry when it
\* holds one, it propagates a carry when its message is full
BlockGenerates(b) == b.val >= message_modulus
BlockPropagates(b) == b.val = message_modulus - 1

\* lane 1 holds the injected carry, lane i + 1 the signals of block i: the
\* prefix of lane i is then the carry that enters block i
ComputeSignals ==
    /\ phase = "signals"
    /\ generates' = [i \in 1..Len(radix_lwe_input) |->
                        IF i = 1 THEN carry_in # 0
                        ELSE BlockGenerates(radix_lwe_input[i - 1])]
    /\ propagates' = [i \in 1..Len(radix_lwe_input) |->
                        IF i = 1 THEN FALSE
                        ELSE BlockPropagates(radix_lwe_input[i - 1])]
    /\ stride' = 1
    /\ phase' = "prefix"
    /\ UNCHANGED <<message_modulus, carry_modulus, sumVars, radix_lwe_input, carry_in,
                   requested_flag, chain_pos, chain_carry, chain_blocks, chain_flag,
                   prefix_rounds, prefix_blocks, prefix_flag>>
    /\ UNCHANGED laneVars

\* CombineGenerate with a slip: the propagate signal is not looked at
CombineGenerateAlways(g_hi, p_hi, g_lo) == g_hi \/ g_lo

\* the combination of the signals of a lane (hi) with those at distance s (lo)
CombineGenerate(g_hi, p_hi, g_lo) == g_hi \/ (p_hi /\ g_lo)

\* CombinePropagate with a slip: a pair propagates when either part does
CombinePropagateEither(p_hi, p_lo) == p_hi \/ p_lo

CombinePropagate(p_hi, p_lo) == p_hi /\ p_lo

\* the signals after one round at distance s
RoundGenerates(g, p, s) ==
    [i \in 1..Len(g) |-> IF i - s >= 1 THEN CombineGenerate(g[i], p[i], g[i - s]) ELSE g[i]]

\* RoundPropagates with a slip: the propagate signals are not combined
RoundPropagatesKept(g, p, s) == p

RoundPropagates(g, p, s) ==
    [i \in 1..Len(p) |-> IF i - s >= 1 THEN CombinePropagate(p[i], p[i - s]) ELSE p[i]]

\* one round of the parallel prefix: every lane is combined with the lane at
\* distance stride; the stride doubles
PrefixRound ==
    /\ phase = "prefix"
    /\ stride < Len(radix_lwe_input)
    /\ generates' = RoundGenerates(generates, propagates, stride)
    /\ propagates' = RoundPropagates(generates, propagates, stride)
    /\ stride' = 2 * stride
    /\ prefix_rounds' = prefix_rounds + 1
    /\ UNCHANGED <<message_modulus, carry_modulus, sumVars, radix_lwe_input, carry_in,
                   requested_flag, phase, chain_pos, chain_carry, chain_blocks, chain_flag,
                   prefix_blocks, prefix_flag>>
    /\ UNCHANGED laneVars

\* CleanBlock with a slip: the carry that enters the block is not added
CleanBlockNoCarry(b, carry) == Block(b.val % message_modulus, message_modulus - 1)

\* the clean block of a block and the carry that enters it
CleanBlock(b, carry) ==
    Block((b.val + BoolBit(carry)) % message_modulus, message_modulus - 1)

\* after the last round: every block is combined with its carry-in; the flag
\* comes from the last block and its carry-in
CombineCarries ==
    /\ phase = "prefix"
    /\ stride >= Len(radix_lwe_input)
    /\ prefix_blocks' = [i \in 1..Len(radix_lwe_input) |->
                            CleanBlock(radix_lwe_input[i], generates[i])]
    /\ prefix_flag' =
          (IF requested_flag = "Carry"
           THEN LET n == Len(radix_lwe_input)
                IN  Some((radix_lwe_input[n].val + BoolBit(generates[n]))
                            \div message_modulus # 0)
           ELSE None)
    /\ phase' = "finished"
    /\ UNCHANGED <<message_modulus, carry_modulus, sumVars, radix_lwe_input, carry_in,
                   requested_flag, chain_pos, chain_carry, chain_blocks, chain_flag,
                   generates, propagates, stride, prefix_rounds>>
    /\ UNCHANGED laneVars

(***************************************************************************)
(* One round of the parallel prefix, lane by lane: every lane combines its *)
(* pair with the pair at distance stride, the lanes run in any order, and  *)
(* the pairs they produced replace the signals once all of them have       *)
(* finished.                                                               *)
(***************************************************************************)
\* what lane i produced in the current round: nothing until it has run
GenerateBuf(i) == IF i \in DOMAIN generates_buffer THEN generates_buffer[i] ELSE FALSE
PropagateBuf(i) == IF i \in DOMAIN propagates_buffer THEN propagates_buffer[i] ELSE FALSE

\* LaneSignals with a slip: lane i writes the signal it produced over the
\* signal of the round before, while the other lanes run
LaneSignalsInPlace(signals, i, produced) == [signals EXCEPT ![i] = produced]

\* the signals the lanes still to run will read, after lane i produced its
\* signal: a lane writes its own buffer only
LaneSignals(signals, i, produced) == signals

\* the combination of lane i in the current round
LaneCombination(i) ==
    /\ phase = "prefix"
    /\ stride < Len(radix_lwe_input)
    /\ i \in 1..Len(radix_lwe_input) /\ i \notin lanes_done
    /\ LET n == Len(radix_lwe_input)
           g == IF i - stride >= 1
                THEN CombineGenerate(generates[i], propagates[i], generates[i - stride])
                ELSE generates[i]
           p == IF i - stride >= 1
                THEN CombinePropagate(propagates[i], propagates[i - stride])
                ELSE propagates[i]
       IN  /\ generates_buffer' = [j \in 1..n |-> IF j = i THEN g ELSE GenerateBuf(j)]
           /\ propagates_buffer' = [j \in 1..n |-> IF j = i THEN p ELSE PropagateBuf(j)]
           /\ generates' = LaneSignals(generates, i, g)
           /\ propagates' = LaneSignals(propagates, i, p)
    /\ lanes_done' = lanes_done \cup {i}
    /\ UNCHANGED <<message_modulus, carry_modulus, sumVars, radix_lwe_input, carry_in,
                   requested_flag, phase, chain_pos, chain_carry, chain_blocks, chain_flag,
                   stride, prefix_rounds, prefix_blocks, prefix_flag>>

\* the barrier between two rounds: every lane has finished; the signals they
\* produced become the signals, and the stride doubles
RoundBarrier ==
    /\ phase = "prefix"
    /\ lanes_done # {} /\ lanes_done = 1..Len(radix_lwe_input)
    /\ generates' = generates_buffer
    /\ propagates' = propagates_buffer
    /\ stride' = 2 * stride
    /\ prefix_rounds' = prefix_rounds + 1
    /\ lanes_done' = {}
    /\ generates_buffer' = <<>>
    /\ propagates_buffer' = <<>>
    /\ UNCHANGED <<message_modulus, carry_modulus, sumVars, radix_lwe_input, carry_in,
                   requested_flag, phase, chain_pos, chain_carry, chain_blocks, chain_flag,
                   prefix_blocks, prefix_flag>>

(***************************************************************************)
(* The calls the model explores.                                           *)
(***************************************************************************)
\* the parameter sets: MESSAGE_1_CARRY_1, MESSAGE_2_CARRY_1 and MESSAGE_2_CARRY_2
Moduli == {2, 4}

\* the carry moduli of a message modulus: at least one bit of carry, at most
\* as many bits as the message
CarryModuli(mm) == {cm \in {2, 4} : cm <= mm}

\* plaintexts of the fresh terms
TermValues ==
    IF message_modulus = 2
    THEN 0..(message_modulus * message_modulus - 1)
    ELSE {2, 5, message_modulus * message_modulus - 1}

FreshTerms == {Encrypt(v, NumBlocks) : v \in TermValues}

\* a term that is known to be zero: every block has degree 0
TrivialTerms == {create_trivial_radix(0, NumBlocks)}

\* a term with carries: the unchecked sum of two fresh encryptions of the
\* largest value
DirtyTerms ==
    LET m == Encrypt(Pow(message_modulus, NumBlocks) - 1, NumBlocks)
    IN  {unchecked_add_radix(m, m)}

\* a one-block value extended with trivial zero blocks (MM = 2 only)
ExtendedTerms ==
    IF message_modulus = 2
    THEN {[i \in 1..NumBlocks |->
            IF i = 1 THEN Block(1, message_modulus - 1) ELSE create_trivial(0)]}
    ELSE {}

TermSet == FreshTerms \cup TrivialTerms \cup DirtyTerms \cup ExtendedTerms

TermLists == UNION {[1..n -> TermSet] : n \in 0..MaxTerms}

\* no task of a round has run
TasksIdle ==
    /\ tasks_done = {}
    /\ columns_buffer = <<>>
    /\ column_output_buffer = <<>>

\* no lane of a round has run
LanesIdle ==
    /\ lanes_done = {}
    /\ generates_buffer = <<>>
    /\ propagates_buffer = <<>>

\* the propagator is not run
PropagatorIdle ==
    /\ radix_lwe_input = <<>>
    /\ carry_in = 0
    /\ requested_flag = "None"
    /\ phase = "idle"
    /\ chain_pos = 1
    /\ chain_carry = 0
    /\ chain_blocks = <<>>
    /\ chain_flag = None
    /\ generates = <<>>
    /\ propagates = <<>>
    /\ stride = 1
    /\ prefix_rounds = 0
    /\ prefix_blocks = <<>>
    /\ prefix_flag = None
    /\ LanesIdle

Init ==
    /\ message_modulus \in Moduli
    /\ carry_modulus \in CarryModuli(message_modulus)
    /\ op \in Ops
    /\ given \in TermLists
    /\ ciphertexts = given
    /\ pc = "call"
    /\ columns = <<>>
    /\ output_carries = <<>>
    /\ rounds = 0
    /\ partial = None
    /\ result = None
    /\ overflowed = None
    /\ panic = ""
    /\ TasksIdle
    /\ PropagatorIdle

Next ==
    \/ unchecked_partial_sum_ciphertexts_vec_parallelized
    \/ unchecked_sum_ciphertexts_parallelized
    \/ sum_ciphertexts_parallelized
    \/ smart_sum_ciphertexts_parallelized
    \/ unchecked_unsigned_overflowing_sum_ciphertexts_parallelized
    \/ unsigned_overflowing_sum_ciphertexts_parallelized
    \/ smart_unsigned_overflowing_sum_ciphertexts_parallelized
    \/ ReductionRound
    \/ ReducerReturn

Spec == Init /\ [][Next]_vars

(***************************************************************************)
(* Long sums with more carry space than message space (MESSAGE_1_CARRY_2): *)
(* lists of up to MaxWideTerms fresh terms, the first ones of the largest  *)
(* value, the others of value 1.                                           *)
(***************************************************************************)
WideLists ==
    UNION {{[t \in 1..n |-> IF t <= j
                            THEN Encrypt(Pow(message_modulus, NumBlocks) - 1, NumBlocks)
                            ELSE Encrypt(1, NumBlocks)] : j \in 0..n} :
           n \in 3..MaxWideTerms}

InitWide ==
    /\ message_modulus = 2
    /\ carry_modulus \in {2, 4}
    /\ op \in Ops
    /\ given \in WideLists
    /\ ciphertexts = given
    /\ pc = "call"
    /\ columns = <<>>
    /\ output_carries = <<>>
    /\ rounds = 0
    /\ partial = None
    /\ result = None
    /\ overflowed = None
    /\ panic = ""
    /\ TasksIdle
    /\ PropagatorIdle

SpecWide == InitWide /\ [][Next]_vars

(***************************************************************************)
(* The reduction loop on one-block radixes, also with no carry space       *)
(* (MESSAGE_1_CARRY_0, for which max_sum_size returns 1), for the sums     *)
(* that collect no carries.  The program is sequential: it takes its next  *)
(* step whenever it has one.                                               *)
(***************************************************************************)
LoopParameters == {<<2, 1>>, <<2, 2>>, <<4, 2>>}

OneBlockTerms ==
    {Encrypt(v, 1) : v \in 0..(message_modulus - 1)} \cup {create_trivial_radix(0, 1)}

InitLoop ==
    /\ \E p \in LoopParameters : message_modulus = p[1] /\ carry_modulus = p[2]
    /\ op \in Ops \ OverflowingOps
    /\ given \in UNION {[1..n -> OneBlockTerms] : n \in 0..MaxTerms}
    /\ ciphertexts = given
    /\ pc = "call"
    /\ columns = <<>>
    /\ output_carries = <<>>
    /\ rounds = 0
    /\ partial = None
    /\ result = None
    /\ overflowed = None
    /\ panic = ""
    /\ TasksIdle
    /\ PropagatorIdle

NextLoop ==
    \/ unchecked_partial_sum_ciphertexts_vec_parallelized
    \/ unchecked_sum_ciphertexts_parallelized
    \/ sum_ciphertexts_parallelized
    \/ smart_sum_ciphertexts_parallelized
    \/ ReductionRound
    \/ ReducerReturn

SpecLoop == InitLoop /\ [][NextLoop]_vars /\ WF_vars(NextLoop)

(***************************************************************************)
(* The rounds run task by task, for a sum that collects no carries and one *)
(* that does.                                                              *)
(***************************************************************************)
InitTasks ==
    /\ message_modulus \in Moduli
    /\ carry_modulus \in CarryModuli(message_modulus)
    /\ op \in {"unchecked_sum", "unchecked_unsigned_overflowing_sum"}
    /\ given \in TermLists
    /\ ciphertexts = given
    /\ pc = "call"
    /\ columns = <<>>
    /\ output_carries = <<>>
    /\ rounds = 0
    /\ partial = None
    /\ result = None
    /\ overflowed = None
    /\ panic = ""
    /\ TasksIdle
    /\ PropagatorIdle

NextTasks ==
    \/ unchecked_sum_ciphertexts_parallelized
    \/ unchecked_unsigned_overflowing_sum_ciphertexts_parallelized
    \/ \E i \in 1..NumBlocks : ColumnTask(i)
    \/ RoundJoin
    \/ ReducerReturn

SpecTasks == InitTasks /\ [][NextTasks]_vars

(***************************************************************************)
(* Calls on terms of different sizes: radixes of one block fewer and one   *)
(* block more than NumBlocks beside those of NumBlocks blocks.             *)
(***************************************************************************)
MixedTerms ==
    LET dirty(n) == unchecked_add_radix(Encrypt(Pow(message_modulus, n) - 1, n),
                                        Encrypt(Pow(message_modulus, n) - 1, n))
    IN  {Encrypt(1, NumBlocks - 1), dirty(NumBlocks - 1),
         Encrypt(1, NumBlocks), Encrypt(Pow(message_modulus, NumBlocks) - 1, NumBlocks),
         dirty(NumBlocks), create_trivial_radix(0, NumBlocks),
         Encrypt(1, NumBlocks + 1)}

InitMixed ==
    /\ message_modulus \in Moduli
    /\ carry_modulus \in CarryModuli(message_modulus)
    /\ op \in Ops
    /\ given \in UNION {[1..n -> MixedTerms] : n \in 0..MaxTerms}
    /\ ciphertexts = given
    /\ pc = "call"
    /\ columns = <<>>
    /\ output_carries = <<>>
    /\ rounds = 0
    /\ partial = None
    /\ result = None
    /\ overflowed = None
    /\ panic = ""
    /\ TasksIdle
    /\ PropagatorIdle

SpecMixed == InitMixed /\ [][Next]_vars

(***************************************************************************)
(* The propagations the model explores.                                    *)
(***************************************************************************)
\* the largest plaintext of a block that holds at most one carry: the sum of
\* two clean blocks
SingleCarryDegree == 2 * (message_modulus - 1)

\* plaintexts of the blocks of the radixes to propagate
PropValues(degree) ==
    IF message_modulus = 2
    THEN 0..degree
    ELSE {v \in {0, message_modulus - 1, message_modulus, 2 * message_modulus - 1} :
            v <= degree}

\* radixes with carries: every block has the given degree
DirtyRadixes(degree) ==
    UNION {[1..n -> {Block(v, degree) : v \in PropValues(degree)}] : n \in 1..MaxPropBlocks}

\* radixes without carries: every block has degree message_modulus - 1
CleanRadixes == DirtyRadixes(message_modulus - 1)

InitPropagate ==
    /\ message_modulus \in Moduli
    /\ carry_modulus \in CarryModuli(message_modulus)
    /\ op = "none"
    /\ given = <<>>
    /\ ciphertexts = <<>>
    /\ pc = "idle"
    /\ columns = <<>>
    /\ output_carries = <<>>
    /\ rounds = 0
    /\ partial = None
    /\ result = None
    /\ overflowed = None
    /\ panic = ""
    /\ TasksIdle
    /\ radix_lwe_input \in CleanRadixes \cup DirtyRadixes(SingleCarryDegree)
                              \cup DirtyRadixes(total_modulus - 1)
    /\ carry_in \in {0, 1}
    /\ requested_flag \in {"None", "Carry"}
    /\ phase = "chain"
    /\ chain_pos = 1
    /\ chain_carry = carry_in
    /\ chain_blocks = <<>>
    /\ chain_flag = None
    /\ generates = <<>>
    /\ propagates = <<>>
    /\ stride = 1
    /\ prefix_rounds = 0
    /\ prefix_blocks = <<>>
    /\ prefix_flag = None
    /\ LanesIdle

NextPropagate ==
    \/ ChainStep
    \/ ChainEnd
    \/ ComputeSignals
    \/ PrefixRound
    \/ CombineCarries

SpecPropagate == InitPropagate /\ [][NextPropagate]_vars

\* the same propagations with the rounds of the parallel prefix run lane by
\* lane
NextLanes ==
    \/ ChainStep
    \/ ChainEnd
    \/ ComputeSignals
    \/ \E i \in 1..MaxPropBlocks : LaneCombination(i)
    \/ RoundBarrier
    \/ CombineCarries

SpecLanes == InitPropagate /\ [][NextLanes]_vars

TypeOK ==
    /\ pc \in {"call", "loop", "done", "panic"}
    /\ Len(partial) <= 1 /\ Len(result) <= 1 /\ Len(overflowed) <= 1

(***************************************************************************)
(* Properties.                                                             *)
(***************************************************************************)
Returned == pc \in {"done", "panic"}

AllClean(cts) == \A t \in 1..Len(cts) : block_carries_are_empty(cts[t])

\* every block holds a plaintext and a degree below message_modulus
IsCleanRadix(ct) ==
    \A i \in 1..Len(ct) : ct[i].deg < message_modulus /\ ct[i].val < message_modulus

\* the integer sum of the integers the terms represent
TrueSum(cts) == SumSeq([t \in 1..Len(cts) |-> Decrypt(cts[t])])

RadixCapacity == Pow(message_modulus, NumBlocks)

C3_CleanInvariant ==
    op \in SumOps
        => /\ panic # ResultCarriesMsg
           /\ (pc = "done" /\ result # None) => IsCleanRadix(result[1])

\* C3 witness: a sum of three or more terms returned after the reducer had
\* handed back a radix with carries.
C3_Witness ==
    /\ pc = "done" /\ op \in SumOps /\ Len(given) >= 3
    /\ partial # None /\ partial[1] # None
    /\ ~block_carries_are_empty(partial[1][1])
    /\ result # None /\ IsCleanRadix(result[1])

\* C4: sum_ciphertexts_parallelized propagates every Dirty term before the
\* reduction, so it never fails the reducer's assertion on the carries and
\* returns the Clean sum, also for three or more terms of which some are Dirty.
C4_SumPropagatesDirtyTerms ==
    (op = "sum" /\ Returned)
        => /\ pc = "done"
           /\ panic = ""
           /\ given # <<>> =>
                /\ result # None
                /\ IsCleanRadix(result[1])
                /\ Decrypt(result[1]) = TrueSum(given) % RadixCapacity

SingleCarry(ct) == \A i \in 1..Len(ct) : ct[i].deg <= SingleCarryDegree

\* the two algorithms returned the same blocks and the same flag
SamePropagation == prefix_blocks = chain_blocks /\ prefix_flag = chain_flag

C7_EmptyYieldsNone ==
    /\ (pc # "call" /\ given = <<>>)
          => (pc = "done" /\ result = None /\ overflowed = None /\ partial \in {None, Some(None)})
    /\ (pc = "done" /\ given # <<>>)
          => (result # None /\ (op \in OverflowingOps => overflowed # None))

\* C7 witness: an overflowing sum returned None for the empty list.
C7_Witness ==
    /\ pc = "done" /\ given = <<>>
    /\ op = "smart_unsigned_overflowing_sum"
    /\ result = None /\ overflowed = None

\* C8: singleton input.  For a one-element list the reducer returns the
\* element unchanged, Clean or Dirty, with no addition and no extraction; the
\* checked sum returns a radix that represents the same integer.
C8_Singleton ==
    (pc # "call" /\ Len(given) = 1)
        => /\ (op = "unchecked_partial_sum")
                => (pc = "done" /\ result = Some(given[1]) /\ rounds = 0 /\ columns = <<>>)
           /\ (op \in SumOps)
                => /\ pc = "done" /\ result # None
                   /\ partial = Some(Some(ciphertexts[1]))
                   /\ Decrypt(result[1]) = Decrypt(given[1])

\* C8 witness: the reducer returned a single Dirty term as it was.
C8_Witness ==
    /\ pc = "done" /\ op = "unchecked_partial_sum"
    /\ Len(given) = 1 /\ ~block_carries_are_empty(given[1])
    /\ result = Some(given[1])

\* C9: two-term input.  For two terms of the same size the reducer returns
\* add_parallelized(terms[0], terms[1]), a Clean radix that represents the sum
\* of the two integers; no columns are built, no round runs and the assertion
\* on the carries is not executed, whatever the terms' carries.
C9_TwoTerms ==
    (op = "unchecked_partial_sum" /\ pc # "call" /\ Len(given) = 2)
        => /\ pc = "done"
           /\ panic = ""
           /\ result = Some(add_parallelized(given[1], given[2]))
           /\ IsCleanRadix(result[1])
           /\ Decrypt(result[1]) = (Decrypt(given[1]) + Decrypt(given[2])) % RadixCapacity
           /\ columns = <<>> /\ rounds = 0

\* C9 witness: the reducer returned the sum of two terms, one of them Dirty,
\* and the sum wrapped around the capacity.
C9_Witness ==
    /\ pc = "done" /\ op = "unchecked_partial_sum" /\ Len(given) = 2
    /\ ~AllClean(given)
    /\ Decrypt(given[1]) + Decrypt(given[2]) >= RadixCapacity
    /\ result = Some(add_parallelized(given[1], given[2]))

\* the list cts with its terms in the order q
Permuted(cts, q) == [t \in 1..Len(cts) |-> cts[q[t]]]

\* an order on terms, to name one list per multiset of terms
TermKey(ct) ==
    SumSeq([i \in 1..Len(ct) |->
        (ct[i].val + total_modulus * ct[i].deg) * Pow(total_modulus * total_modulus, i - 1)])

InKeyOrder(cts) == \A t \in 1..(Len(cts) - 1) : TermKey(cts[t]) <= TermKey(cts[t + 1])

C11_UncheckedSumIsReducerOutput ==
    (op = "unchecked_sum" /\ pc = "done" /\ partial # None /\ partial[1] # None)
        => result = partial[1]

\* C11 amended: the public unchecked sum returns the column reducer's output
\* after a full carry propagation, so its result is always Clean and represents
\* the same integer; only the reducer's own entry point
\* (unchecked_partial_sum_ciphertexts_vec_parallelized) returns the output as
\* it is, possibly Dirty.
C11_UncheckedSumPropagates ==
    /\ (op = "unchecked_sum" /\ pc = "done" /\ partial # None /\ partial[1] # None)
          => /\ result = Some(full_propagate_parallelized(partial[1][1]))
             /\ IsCleanRadix(result[1])
             /\ Decrypt(result[1]) = Decrypt(partial[1][1])
    /\ (op = "unchecked_partial_sum" /\ pc = "done" /\ partial # None)
          => result = partial[1]

\* C11 witness: the unchecked sum of three or more Clean terms returned a
\* Clean radix that differs from the Dirty radix the reducer had built.
C11_Witness ==
    /\ pc = "done" /\ op = "unchecked_sum" /\ Len(given) >= 3 /\ AllClean(given)
    /\ partial # None /\ partial[1] # None
    /\ ~block_carries_are_empty(partial[1][1])
    /\ result # None /\ result # partial[1]
    /\ IsCleanRadix(result[1])

\* the call reached the reducer's columns with three or more Clean terms and
\* every column held n blocks of non-zero degree after the partition
ColumnsAllHold(n) ==
    /\ pc \in {"loop", "done"} /\ Len(given) >= 3 /\ AllClean(given)
    /\ \A i \in 1..NumBlocks : Len(Partition(given, NumBlocks)[i]) = n

\* no round has run and, once the reducer returned, its output is the plain
\* fold of the columns of the partition
NoRoundPlainFold ==
    /\ rounds = 0
    /\ pc = "done" => partial = Some(Some(Reconstruct(Partition(given, NumBlocks))))

\* the loop ran exactly one round before it ended
ExactlyOneRound ==
    /\ rounds <= 1
    /\ rounds = 1 => ~at_least_one_column_has_enough_elements(columns)
    /\ pc = "done" => rounds = 1

\* C12 as claimed: with K = max_sum_size(message_modulus - 1), columns of
\* exactly K blocks take no reduction round and are folded by plain addition;
\* columns of K + 1 blocks take exactly one round, whatever K.
C12_BoundaryAnyK ==
    /\ ColumnsAllHold(num_elements_to_fill_carry) => NoRoundPlainFold
    /\ ColumnsAllHold(num_elements_to_fill_carry + 1) => ExactlyOneRound

\* C12 amended: columns of exactly K blocks take no reduction round and are
\* folded by plain addition; columns of K + 1 blocks take exactly one round
\* when K >= 3 (every parameter set with carry_modulus >= message_modulus).
\* With K = 2 and two or more blocks the carry that enters the next column
\* keeps it longer than K, and more rounds run.
C12_Boundary ==
    /\ ColumnsAllHold(num_elements_to_fill_carry) => NoRoundPlainFold
    /\ (num_elements_to_fill_carry >= 3 /\ ColumnsAllHold(num_elements_to_fill_carry + 1))
          => ExactlyOneRound
    /\ (num_elements_to_fill_carry = 2 /\ NumBlocks >= 2 /\ pc = "done"
            /\ ColumnsAllHold(num_elements_to_fill_carry + 1))
          => rounds > 1

\* C12 witness: a sum whose columns held K + 1 blocks returned after exactly
\* one round.
C12_Witness ==
    /\ pc = "done" /\ num_elements_to_fill_carry >= 3
    /\ ColumnsAllHold(num_elements_to_fill_carry + 1)
    /\ rounds = 1
    /\ result # None

\* C13: the fully checked unsigned overflowing sum propagates every Dirty
\* term: for every non-empty list of terms of the same size, Clean or Dirty,
\* of one, two or more terms, it returns a Clean radix and a flag and never
\* fails the reducer's assertion on the carries.
C13_OverflowingSumPropagatesDirtyTerms ==
    (op = "unsigned_overflowing_sum" /\ Returned /\ given # <<>>)
        => /\ pc = "done"
           /\ panic # CarriesMsg
           /\ result # None /\ overflowed # None
           /\ IsCleanRadix(result[1])

\* the integer sum of the plaintexts of a sequence of blocks
SumVals(blks) == SumSeq([k \in 1..Len(blks) |-> blks[k].val])

\* the chunks the next round adds up, column by column
ChunksOf(column) ==
    IF Len(column) < num_elements_to_fill_carry THEN <<>>
    ELSE [c \in 1..(Len(column) \div num_elements_to_fill_carry) |->
            SubSeq(column, (c - 1) * num_elements_to_fill_carry + 1,
                   c * num_elements_to_fill_carry)]

\* C14: no silent wraparound.  For every list of three or more Clean terms,
\* every block the reducer holds in a column (of a term, an extracted message
\* or an extracted carry) has a plaintext below message_modulus, and every
\* accumulator it builds by plain addition (each chunk of every round, the
\* final fold of every column) has an integer sum of plaintexts of at most
\* message_modulus * carry_modulus - 1.
C14_NoSilentWraparound ==
    (pc = "loop" /\ Len(given) >= 3 /\ AllClean(given))
        => /\ \A i \in 1..Len(columns) : \A k \in 1..Len(columns[i]) :
                  columns[i][k].val <= message_modulus - 1
           /\ IF at_least_one_column_has_enough_elements(columns)
              THEN \A i \in 1..Len(columns) :
                      \A c \in 1..Len(ChunksOf(columns[i])) :
                          SumVals(ChunksOf(columns[i])[c]) <= total_modulus - 1
              ELSE \A i \in 1..Len(columns) : SumVals(columns[i]) <= total_modulus - 1

\* C15: termination of the reduction loop.  For every list of three or more
\* Clean terms and every K >= 1 that max_sum_size returns, once the loop is
\* entered a state in which no column holds more than K blocks is eventually
\* reached.
C15_Termination ==
    (pc = "loop") ~> ~at_least_one_column_has_enough_elements(columns)

\* the count of rounds is exact: it stays below MaxRounds
RoundsCounted == rounds < MaxRounds - 1

\* the integer the columns stand for: the blocks of column i weigh
\* message_modulus^i
ColumnsValue(cols) ==
    SumSeq([i \in 1..Len(cols) |-> Pow(message_modulus, i - 1) * SumVals(cols[i])])

\* ... and with the collected carries, which weigh message_modulus^num_blocks
ReducerValue ==
    ColumnsValue(columns) + Pow(message_modulus, Len(columns)) * SumVals(output_carries)

\* C16: value conservation across reduction rounds.  At the start of the loop
\* and after every round, the weighted sum of the plaintexts in the columns
\* plus message_modulus^num_blocks times the collected carries equals the
\* integer sum of the terms when carries are collected, and is congruent to it
\* modulo message_modulus^num_blocks when they are not; the partition, which
\* drops the blocks of degree 0, starts from the integer sum of the terms.
C16_ValueConservation ==
    (pc = "loop" /\ Len(given) >= 3 /\ AllClean(given))
        => /\ ColumnsValue(Partition(given, NumBlocks)) = TrueSum(given)
           /\ CollectsCarries(op) => ReducerValue = TrueSum(given)
           /\ ReducerValue % RadixCapacity = TrueSum(given) % RadixCapacity

\* a step of the reduction loop: one more round has run
RoundStep == pc = "loop" /\ pc' = "loop" /\ rounds' = rounds + 1

\* the number of chunks of a column of L blocks when the columns of at least
\* threshold blocks are the ones that are split
ChunksWhen(L, threshold) ==
    IF L >= threshold THEN L \div num_elements_to_fill_carry ELSE 0

\* what a round does to the columns when the columns of at least threshold
\* blocks are the ones that are split: a split column keeps the blocks after
\* its last full chunk and gets one extracted message per chunk; any other
\* column keeps all its blocks, in place, and gets no message; both get one
\* carry per chunk of the column before
RoundSplits(threshold) ==
    \A i \in 1..Len(columns) :
        LET L        == Len(columns[i])
            K        == num_elements_to_fill_carry
            chunks   == ChunksWhen(L, threshold)
            incoming == IF i > 1 THEN ChunksWhen(Len(columns[i - 1]), threshold) ELSE 0
            kept     == IF L >= threshold THEN L % K ELSE L
        IN  /\ Len(columns'[i]) = kept + incoming + chunks
            /\ SubSeq(columns'[i], 1, kept) = SubSeq(columns[i], L - kept + 1, L)
            /\ \A k \in (kept + incoming + 1)..Len(columns'[i]) :
                  /\ columns'[i][k].deg = message_modulus - 1
                  /\ columns'[i][k].val < message_modulus

\* C17 as claimed: in each round exactly the columns longer than K are split
\* into chunks of K and extracted; a column of at most K blocks, also one of
\* exactly K, goes to the next round untouched.
C17_OnlyOverlongColumnsSplit ==
    [][RoundStep => RoundSplits(num_elements_to_fill_carry + 1)]_vars

\* C17 amended: in each round exactly the columns of at least K blocks are
\* split into chunks of K and extracted, so a column of exactly K blocks is
\* split when another column makes the round run; a column of fewer than K
\* blocks goes to the next round untouched.
C17_FullColumnsSplit ==
    [][RoundStep => RoundSplits(num_elements_to_fill_carry)]_vars

\* C17 witness: the first round ran because column 1 was longer than K, and
\* column 2 held exactly K blocks; column 2 now holds the carries of column 1
\* and the one message of its own chunk, and no block it held before.
C17_Witness ==
    /\ pc \in {"loop", "done"} /\ rounds = 1
    /\ Len(given) >= 3 /\ AllClean(given) /\ NumBlocks >= 2
    /\ LET first == Partition(given, NumBlocks)
           K     == num_elements_to_fill_carry
       IN  /\ Len(first[1]) > K
           /\ Len(first[2]) = K
           /\ Len(columns[2]) = (Len(first[1]) \div K) + 1
           /\ columns[2][Len(columns[2])] = message_extract(AddAll(first[2]))

\* chunk c of a column: its blocks (c - 1) * K + 1 .. c * K, added up
ChunkSum(column, c) ==
    AddAll(SubSeq(column, (c - 1) * num_elements_to_fill_carry + 1,
                  c * num_elements_to_fill_carry))

\* C18: leftover digits and column length after a round.  When a column of L
\* blocks is chunked in a round, its floor(L / K) chunks of K consecutive blocks
\* are each replaced by the message extracted from the chunk's sum, its last
\* L mod K blocks are kept as they are, and at the start of the next round it
\* holds (L mod K) + floor(L / K) + (the carries column i - 1 produced in the
\* round) blocks: the leftovers, then those carries, then its messages, each
\* once.
C18_LeftoversAndLength ==
    [][RoundStep =>
        \A i \in 1..Len(columns) :
            LET K  == num_elements_to_fill_carry
                L  == Len(columns[i])
                q  == L \div K
                r  == L % K
                in == IF i > 1 /\ Len(columns[i - 1]) >= K
                      THEN Len(columns[i - 1]) \div K ELSE 0
            IN  L >= K =>
                  /\ Len(columns'[i]) = r + q + in
                  /\ \A k \in 1..r : columns'[i][k] = columns[i][q * K + k]
                  /\ \A c \in 1..in :
                        columns'[i][r + c] = carry_extract(ChunkSum(columns[i - 1], c))
                  /\ \A c \in 1..q :
                        columns'[i][r + in + c] = message_extract(ChunkSum(columns[i], c))
    ]_vars

\* C18 witness: after the first round, column 2, which held more than K
\* blocks and not a multiple of K, holds its leftovers first, then a carry of
\* column 1, then its message.
C18_Witness ==
    /\ pc \in {"loop", "done"} /\ rounds = 1
    /\ Len(given) >= 3 /\ AllClean(given) /\ NumBlocks >= 2
    /\ LET first == Partition(given, NumBlocks)
           K     == num_elements_to_fill_carry
           L     == Len(first[2])
       IN  /\ L > K /\ L % K # 0
           /\ Len(first[1]) >= K
           /\ Len(columns[2]) = (L % K) + (L \div K) + (Len(first[1]) \div K)
           /\ columns[2][1] = first[2][(L \div K) * K + 1]
           /\ columns[2][Len(columns[2])] = message_extract(ChunkSum(first[2], L \div K))

\* the chunks a round reduces in a column, and the blocks it leaves in place
ChunksReduced(column) ==
    IF Len(column) >= num_elements_to_fill_carry
    THEN Len(column) \div num_elements_to_fill_carry ELSE 0

LeftInPlace(column) ==
    IF Len(column) >= num_elements_to_fill_carry
    THEN Len(column) % num_elements_to_fill_carry ELSE Len(column)

\* C19: carry routing.  For every chunk reduced in column i the message goes
\* to the end of column i; when i is not the last column the carry goes to
\* column i + 1 and nowhere else (column 1 receives no carry, column i + 1 only
\* those of column i); when i is the last column the carry goes to the
\* collected carries if the caller passed a vector for them, and otherwise
\* nothing is appended anywhere.
C19_CarryRouting ==
    [][RoundStep =>
        LET n == Len(columns)
        IN  /\ \A i \in 1..n : \A c \in 1..ChunksReduced(columns[i]) :
                  columns'[i][Len(columns'[i]) - ChunksReduced(columns[i]) + c]
                      = message_extract(ChunkSum(columns[i], c))
            /\ \A i \in 1..(n - 1) : \A c \in 1..ChunksReduced(columns[i]) :
                  columns'[i + 1][LeftInPlace(columns[i + 1]) + c]
                      = carry_extract(ChunkSum(columns[i], c))
            /\ Len(columns'[1]) = LeftInPlace(columns[1]) + ChunksReduced(columns[1])
            /\ \A i \in 2..n :
                  Len(columns'[i]) = LeftInPlace(columns[i]) + ChunksReduced(columns[i])
                                        + ChunksReduced(columns[i - 1])
            /\ IF CollectsCarries(op)
               THEN output_carries' = output_carries \o
                        [c \in 1..ChunksReduced(columns[n]) |->
                            carry_extract(ChunkSum(columns[n], c))]
               ELSE /\ output_carries' = <<>> /\ output_carries = <<>>
                    /\ \A c \in 1..ChunksReduced(columns[n]) :
                          ColumnOutput(columns[n], n - 1, n, FALSE)[c].carry = None
    ]_vars

\* C19 witness: an overflowing sum ran one round in which the last column
\* was chunked; its carry, not zero, is the one collected carry, and column 2
\* holds the carry of column 1.
C19_Witness ==
    /\ pc \in {"loop", "done"} /\ rounds = 1 /\ CollectsCarries(op)
    /\ Len(given) >= 3 /\ AllClean(given) /\ NumBlocks >= 2
    /\ LET first == Partition(given, NumBlocks)
       IN  /\ ChunksReduced(first[NumBlocks]) = 1
           /\ ChunksReduced(first[1]) = 1
           /\ output_carries = <<carry_extract(ChunkSum(first[NumBlocks], 1))>>
           /\ output_carries[1].val # 0
           /\ columns[2][LeftInPlace(first[2]) + 1] = carry_extract(ChunkSum(first[1], 1))

\* a task of the round has finished; every task has, and the blocks are moved
TaskStep == pc = "loop" /\ tasks_done' # tasks_done /\ tasks_done' # {}
JoinStep == pc = "loop" /\ tasks_done # {} /\ tasks_done' = {}

\* C20: reduction-round barrier.  While the tasks of a round run, the columns
\* and the collected carries do not change and the buffers of the tasks that
\* have finished are not written again: the task of column i fills its own
\* out_buf and returned column from column i as it was when the round began.
\* The messages and carries are moved only when every task has finished, so
\* no carry of column i is consumed by column i + 1 in the same round, and the
\* columns of the next round are those of the round run in one step, whatever
\* the order of the tasks.
C20_RoundBarrier ==
    [][/\ TaskStep =>
            /\ columns' = columns
            /\ output_carries' = output_carries
            /\ rounds' = rounds
            /\ \A j \in tasks_done :
                  /\ column_output_buffer'[j] = column_output_buffer[j]
                  /\ columns_buffer'[j] = columns_buffer[j]
            /\ \A i \in tasks_done' \ tasks_done :
                  /\ column_output_buffer'[i]
                        = ColumnOutput(columns[i], i - 1, Len(columns), CollectsCarries(op))
                  /\ columns_buffer'[i] = ColumnRest(columns[i])
       /\ JoinStep =>
            /\ tasks_done = 1..Len(columns)
            /\ columns' = RoundColumns(columns, CollectsCarries(op))
            /\ output_carries' = output_carries \o RoundCarries(columns, CollectsCarries(op))
    ]_vars

\* C20 witness: the task of column 2 has finished and the task of column 1,
\* which is to produce a carry for column 2, has not run yet; column 2 is as
\* it was when the round began.
C20_Witness ==
    /\ pc = "loop" /\ tasks_done = {2}
    /\ Len(columns[1]) >= num_elements_to_fill_carry
    /\ column_output_buffer[2] # <<>>
    /\ rounds = 0 /\ columns = Partition(given, NumBlocks)

\* the sum of the degrees of a sequence of blocks
SumDegs(blks) == SumSeq([k \in 1..Len(blks) |-> blks[k].deg])

\* the call reached the reducer's columns: three or more Clean terms, handed
\* on as they were given
ReducerReached == pc \in {"loop", "done"} /\ Len(given) >= 3 /\ AllClean(given)

\* C21: shape of the reducer's result for three or more terms.  When the loop
\* exits every column holds at most K blocks, and the returned radix has
\* exactly num_blocks blocks in the order of the positions: block i is the
\* plain sum of the blocks left in column i (its plaintext their sum in the
\* block's plaintext space, with no extraction, its degree the sum of their
\* degrees), a trivial zero when
\* column i is empty; when every column is empty after the blocks of degree 0
\* were dropped, the result is the trivial all-zero radix of num_blocks blocks
\* and no round runs.
C21_ResultShape ==
    (ReducerReached /\ pc = "done")
        => /\ partial # None /\ partial[1] # None
           /\ Len(partial[1][1]) = NumBlocks
           /\ IF \A i \in 1..NumBlocks : Partition(given, NumBlocks)[i] = <<>>
              THEN /\ partial[1][1] = [i \in 1..NumBlocks |-> Block(0, 0)]
                   /\ rounds = 0 /\ columns = <<>>
              ELSE /\ Len(columns) = NumBlocks
                   /\ \A i \in 1..NumBlocks :
                         /\ Len(columns[i]) <= num_elements_to_fill_carry
                         /\ columns[i] = <<>> => partial[1][1][i] = Block(0, 0)
                         /\ columns[i] # <<>> =>
                               /\ partial[1][1][i].val = SumVals(columns[i]) % total_modulus
                               /\ partial[1][1][i].deg = SumDegs(columns[i])

\* C21 witness: the reducer returned after a round; a column it was left
\* with held two or more blocks and was folded into one block that holds a
\* carry.
C21_Witness ==
    /\ ReducerReached /\ pc = "done" /\ partial # None /\ partial[1] # None
    /\ Len(columns) = NumBlocks /\ rounds >= 1
    /\ \E i \in 1..NumBlocks :
          /\ Len(columns[i]) >= 2
          /\ partial[1][1][i].val >= message_modulus
          /\ partial[1][1][i].val = SumVals(columns[i])

\* ... and the other cases of C21: an empty column beside one that is not,
\* and no column with a block
C21_WitnessEmptyColumn ==
    /\ ReducerReached /\ pc = "done" /\ Len(columns) = NumBlocks
    /\ \E i \in 1..NumBlocks : columns[i] = <<>> /\ partial[1][1][i] = Block(0, 0)
    /\ \E i \in 1..NumBlocks : columns[i] # <<>>

C21_WitnessAllEmpty ==
    /\ ReducerReached /\ pc = "done" /\ columns = <<>>
    /\ partial = Some(Some(create_trivial_radix(0, NumBlocks)))

\* some term of the list has another block count than the first term
UnequalBlockCounts(cts) == \E t \in 2..Len(cts) : Len(cts[t]) # Len(cts[1])

\* nothing was computed: no column was built, no round ran, no carry was
\* collected, the reducer returned nothing and the entry point returned nothing
NothingComputed ==
    /\ columns = <<>> /\ rounds = 0 /\ output_carries = <<>>
    /\ partial = None /\ result = None /\ overflowed = None

\* C22: unequal block counts fail fast.  For every list of two or more terms
\* in which some term's block count differs from the first term's, the column
\* reducer and the unsigned overflowing sum abort on the assertion "Not all
\* ciphertexts have the same number of blocks" before anything is computed,
\* and return no value and no error value; the terms the caller passed by
\* reference are left as they were.  The other entry points end on the same
\* assertion, the smart ones after they propagated the Dirty terms.
C22_UnequalBlockCountsFailFast ==
    (pc # "call" /\ Len(given) >= 2 /\ UnequalBlockCounts(given))
        => /\ pc = "panic"
           /\ panic = "Not all ciphertexts have the same number of blocks"
           /\ NothingComputed
           /\ op \in {"unchecked_partial_sum", "unchecked_unsigned_overflowing_sum",
                      "unsigned_overflowing_sum"} => ciphertexts = given

\* C22 witness: the reducer aborted on three terms of which the first is
\* Dirty and the last is longer than the first.
C22_Witness ==
    /\ pc = "panic" /\ panic = NoBlocksMsg
    /\ op = "unchecked_partial_sum" /\ Len(given) = 3
    /\ Len(given[2]) = Len(given[1]) /\ Len(given[3]) > Len(given[1])
    /\ ~block_carries_are_empty(given[1])
    /\ NothingComputed

\* the reducer was handed, by entry point op, a list with a Dirty term
DirtyTermHandedOn == pc # "call" /\ ~AllClean(Prepared(op, given))

\* C23 as claimed: for every list of two or more terms of the same size of
\* which at least one is Dirty, the column reducer aborts on the assertion
\* "All ciphertexts must have empty carries" and returns no result.
C23_DirtyFailsFastFromTwo ==
    (op = "unchecked_partial_sum" /\ DirtyTermHandedOn /\ Len(given) >= 2)
        => /\ pc = "panic"
           /\ panic = "All ciphertexts must have empty carries"
           /\ result = None

\* C23 amended: for every list of three or more terms of the same size of
\* which at least one is Dirty, the column reducer, called by any entry point,
\* aborts on the assertion "All ciphertexts must have empty carries" before it
\* builds a column, and returns no result.  A list of two terms never reaches
\* the assertion: the reducer returns add_parallelized of the two terms, which
\* propagates them itself.
C23_DirtyFailsFastFromThree ==
    /\ (DirtyTermHandedOn /\ Len(given) >= 3)
          => /\ pc = "panic"
             /\ panic = "All ciphertexts must have empty carries"
             /\ NothingComputed
    /\ (op \notin OverflowingOps /\ DirtyTermHandedOn /\ Len(given) = 2)
          => /\ pc = "done" /\ panic = ""
             /\ partial = Some(Some(add_parallelized(given[1], given[2])))
             /\ result # None /\ IsCleanRadix(result[1])

\* C23 witness: the reducer aborted on four terms of which only the last one
\* is Dirty.
C23_Witness ==
    /\ pc = "panic" /\ panic = CarriesMsg /\ op = "unchecked_partial_sum"
    /\ Len(given) = 4
    /\ \A t \in 1..3 : block_carries_are_empty(given[t])
    /\ ~block_carries_are_empty(given[4])
    /\ NothingComputed

\* the ladders of a dirty radix b, as plaintexts: the messages, and the
\* carries moved up by one position with a zero in the first one
MessageLadder(b) == [i \in 1..Len(b) |-> b[i].val % message_modulus]
CarryLadder(b) ==
    [i \in 1..Len(b) |-> IF i = 1 THEN 0 ELSE b[i - 1].val \div message_modulus]

\* the integer a ladder of plaintexts stands for
LadderValue(l) == SumSeq([i \in 1..Len(l) |-> l[i] * Pow(message_modulus, i - 1)])

\* the integer sum of the two ladders of b
LadderSum(b) == LadderValue(MessageLadder(b)) + LadderValue(CarryLadder(b))

\* the carry of the most significant block of b
TopCarry(b) == b[Len(b)].val \div message_modulus

\* an overflowing sum of three or more Clean terms returned; the reducer had
\* returned a radix
OverflowingSumReturned ==
    /\ op \in OverflowingOps /\ pc = "done" /\ Len(given) >= 3 /\ AllClean(given)
    /\ partial # None /\ partial[1] # None

ReducerNotInvoked ==
    partial = None /\ columns = <<>> /\ rounds = 0 /\ output_carries = <<>>

\* C25: short-input paths of the unsigned overflowing sum.  For a list of one
\* term it returns the term as it was handed on, with a flag that is false;
\* for a list of two terms of the same size it returns the result and the flag
\* of unsigned_overflowing_add_parallelized on the two terms, that is the
\* Clean sum of the two integers and whether it reached the capacity; the
\* column reducer is invoked in neither case.
C25_ShortInputPaths ==
    (op \in OverflowingOps /\ pc # "call")
        => LET terms == Prepared(op, given)
           IN  /\ Len(given) = 1 =>
                    /\ pc = "done"
                    /\ result = Some(terms[1])
                    /\ overflowed = Some(FALSE)
                    /\ ReducerNotInvoked
                    /\ op # "smart_unsigned_overflowing_sum" => result = Some(given[1])
               /\ Len(given) = 2 =>
                    /\ pc = "done"
                    /\ result = Some(unsigned_overflowing_add_parallelized(terms[1], terms[2]).result)
                    /\ overflowed =
                          Some(unsigned_overflowing_add_parallelized(terms[1], terms[2]).overflowed)
                    /\ IsCleanRadix(result[1])
                    /\ Decrypt(result[1]) = (Decrypt(given[1]) + Decrypt(given[2])) % RadixCapacity
                    /\ overflowed[1] = (Decrypt(given[1]) + Decrypt(given[2]) >= RadixCapacity)
                    /\ ReducerNotInvoked

\* C25 witness: the unchecked overflowing sum of two terms, one of them
\* Dirty, returned their sum with the flag set.
C25_Witness ==
    /\ pc = "done" /\ op = "unchecked_unsigned_overflowing_sum" /\ Len(given) = 2
    /\ ~AllClean(given)
    /\ overflowed = Some(TRUE)
    /\ result # None /\ Decrypt(result[1]) = (Decrypt(given[1]) + Decrypt(given[2])) % RadixCapacity
    /\ ReducerNotInvoked

\* the plaintexts of the blocks of a radix
ValsOf(ct) == [i \in 1..Len(ct) |-> ct[i].val]

\* blocks is a propagation of the radix ct with the carry c injected: as many
\* blocks, each below message_modulus, and the same integer modulo
\* message_modulus^num_blocks
PropagationOf(blocks, ct, c) ==
    /\ Len(blocks) = Len(ct)
    /\ \A i \in 1..Len(blocks) : blocks[i].val < message_modulus
    /\ Recompose(blocks) = (Recompose(ct) + c) % Pow(message_modulus, Len(ct))

\* no block of the radix holds a carry, and none is injected
NothingToPropagate ==
    carry_in = 0 /\ \A i \in 1..Len(radix_lwe_input) : radix_lwe_input[i].val < message_modulus

RECURSIVE CeilLog2(_)
CeilLog2(n) == IF n <= 1 THEN 0 ELSE 1 + CeilLog2((n + 1) \div 2)

\* the carry that enters block i, resolved block by block from the signal
\* pairs of the blocks below it and the injected carry
RECURSIVE SignalCarryIn(_, _, _)
SignalCarryIn(ct, c, i) ==
    IF i = 1 THEN c # 0
    ELSE BlockGenerates(ct[i - 1])
            \/ (BlockPropagates(ct[i - 1]) /\ SignalCarryIn(ct, c, i - 1))

\* the carry that enters block i in the addition of the plaintexts
RECURSIVE ChainCarryIn(_, _, _)
ChainCarryIn(ct, c, i) ==
    IF i = 1 THEN c
    ELSE (ct[i - 1].val + ChainCarryIn(ct, c, i - 1)) \div message_modulus

\* the rounds of the parallel prefix are over
PrefixDone == phase = "finished" \/ (phase = "prefix" /\ stride >= Len(radix_lwe_input))

\* C27: Hillis-Steele prefix result.  From the signal pairs of the blocks,
\* ceil(log2(num_blocks)) rounds run, with strides 1, 2, 4, ...; after the
\* last one the generate signal of every position is the carry that enters
\* the block at that position: the one the signal pairs give when they are
\* resolved block by block and, for blocks that hold at most one carry, the
\* one of the addition of the plaintexts.  With one block no round runs.
C27_PrefixResult ==
    PrefixDone
        => LET n == Len(radix_lwe_input)
           IN  /\ prefix_rounds = CeilLog2(n)
               /\ stride = Pow(2, prefix_rounds)
               /\ Len(generates) = n
               /\ \A i \in 1..n :
                     /\ generates[i] = SignalCarryIn(radix_lwe_input, carry_in, i)
                     /\ SingleCarry(radix_lwe_input)
                           => BoolBit(generates[i]) = ChainCarryIn(radix_lwe_input, carry_in, i)

\* C27 witness: on four blocks, after two rounds, the carry the first block
\* generates has crossed two blocks that propagate and enters the fourth.
C27_Witness ==
    /\ phase = "finished" /\ Len(radix_lwe_input) = 4 /\ prefix_rounds = 2
    /\ SingleCarry(radix_lwe_input) /\ carry_in = 0
    /\ BlockGenerates(radix_lwe_input[1])
    /\ BlockPropagates(radix_lwe_input[2]) /\ BlockPropagates(radix_lwe_input[3])
    /\ generates[4] = TRUE
    /\ ChainCarryIn(radix_lwe_input, carry_in, 4) = 1

\* the combination of two signal pairs <<generate, propagate>>, the higher
\* one first
Combine(hi, lo) ==
    <<CombineGenerate(hi[1], hi[2], lo[1]), CombinePropagate(hi[2], lo[2])>>

SignalPairs == BOOLEAN \X BOOLEAN

\* the pair of lane i
LanePair(i) == <<generates[i], propagates[i]>>

\* the lanes whose prefix reaches the first position: those within the next
\* stride of it
ResolvedLanes == {i \in 1..Len(generates) : i <= stride}

\* C28: the combination (g_hi, p_hi) o (g_lo, p_lo) = (g_hi OR (p_hi AND
\* g_lo), p_hi AND p_lo) is associative over all pairs of booleans, and so on
\* the pairs the lanes hold in every round; a lane whose prefix is resolved
\* (it reaches the first position) holds the carry that enters its block and
\* no propagate signal, and combining it with any lower pair leaves its pair
\* unchanged.
C28_CombineAssociativeIdempotent ==
    /\ \A a \in SignalPairs : \A b \in SignalPairs : \A c \in SignalPairs :
          Combine(Combine(a, b), c) = Combine(a, Combine(b, c))
    /\ phase \in {"prefix", "finished"} =>
          /\ \A i \in 1..Len(generates) : \A j \in 1..i : \A k \in 1..j :
                Combine(Combine(LanePair(i), LanePair(j)), LanePair(k))
                    = Combine(LanePair(i), Combine(LanePair(j), LanePair(k)))
          /\ \A i \in ResolvedLanes :
                /\ LanePair(i) = <<SignalCarryIn(radix_lwe_input, carry_in, i), FALSE>>
                /\ \A lo \in SignalPairs : Combine(LanePair(i), lo) = LanePair(i)

\* C28 witness: after the first round on three or more blocks, lane 2 is
\* resolved and holds a carry, while lane 3, not resolved yet, still
\* propagates: combining lane 3 with lane 1 is to change it, combining lane 2
\* with any pair is not.
C28_Witness ==
    /\ phase = "prefix" /\ prefix_rounds = 1 /\ stride = 2
    /\ Len(generates) >= 3
    /\ LanePair(2) = <<TRUE, FALSE>>
    /\ propagates[3] /\ ~generates[3] /\ generates[1]
    /\ Combine(LanePair(3), LanePair(1)) # LanePair(3)
    /\ \A lo \in SignalPairs : Combine(LanePair(2), lo) = LanePair(2)

\* a lane of the round has finished; every lane has, and the round ends
LaneStep == phase = "prefix" /\ lanes_done' # lanes_done /\ lanes_done' # {}
BarrierStep == phase = "prefix" /\ lanes_done # {} /\ lanes_done' = {}

\* the signals after all the rounds, run one whole round at a time
RECURSIVE PrefixGenerates(_, _, _)
PrefixGenerates(g, p, s) ==
    IF s >= Len(g) THEN g
    ELSE PrefixGenerates(RoundGenerates(g, p, s), RoundPropagates(g, p, s), 2 * s)

\* the signal pairs of the blocks, before the first round
FirstGenerates ==
    [i \in 1..Len(radix_lwe_input) |->
        IF i = 1 THEN carry_in # 0 ELSE BlockGenerates(radix_lwe_input[i - 1])]
FirstPropagates ==
    [i \in 1..Len(radix_lwe_input) |->
        IF i = 1 THEN FALSE ELSE BlockPropagates(radix_lwe_input[i - 1])]

\* the clean blocks are those of the rounds run one whole round at a time
WholeRoundBlocks ==
    prefix_blocks =
        [i \in 1..Len(radix_lwe_input) |->
            CleanBlock(radix_lwe_input[i],
                       PrefixGenerates(FirstGenerates, FirstPropagates, 1)[i])]

\* C29: propagation-round barrier.  While the lanes of a round run, the
\* signals of the round before, the stride and the count of rounds do not
\* change, and what a finished lane produced is not written again: a lane
\* produces its pair from its own pair and the pair at distance stride as the
\* round before left them.  The next round starts only when every lane has
\* finished, and the signals it starts from are those of the round run in one
\* step, whatever the order of the lanes; so are the clean blocks at the end.
C29_PropagationRoundBarrier ==
    /\ [](phase = "finished" => WholeRoundBlocks)
    /\ [][/\ LaneStep =>
               /\ generates' = generates /\ propagates' = propagates
               /\ stride' = stride /\ prefix_rounds' = prefix_rounds
               /\ \A j \in lanes_done :
                     /\ generates_buffer'[j] = generates_buffer[j]
                     /\ propagates_buffer'[j] = propagates_buffer[j]
               /\ \A i \in lanes_done' \ lanes_done :
                     /\ generates_buffer'[i] = RoundGenerates(generates, propagates, stride)[i]
                     /\ propagates_buffer'[i] = RoundPropagates(generates, propagates, stride)[i]
          /\ BarrierStep =>
               /\ lanes_done = 1..Len(radix_lwe_input)
               /\ generates' = RoundGenerates(generates, propagates, stride)
               /\ propagates' = RoundPropagates(generates, propagates, stride)
               /\ stride' = 2 * stride
       ]_vars

\* C29 witness: in the first round on three or more blocks, lane 3 has run
\* before lane 2, whose pair it reads; lane 2 is to receive the injected
\* carry in this round, and lane 3, which propagates, produced no carry: it
\* read the pair lane 2 held before the round.
C29_Witness ==
    /\ phase = "prefix" /\ prefix_rounds = 0 /\ stride = 1
    /\ Len(radix_lwe_input) >= 3
    /\ 3 \in lanes_done /\ 2 \notin lanes_done
    /\ ~generates[2] /\ RoundGenerates(generates, propagates, stride)[2]
    /\ propagates[3] /\ ~generates[3]
    /\ generates_buffer[3] = FALSE

SmartOps == {"smart_sum", "smart_unsigned_overflowing_sum"}

\* C30: effect on the caller's terms.  The entry points that take references
\* or a vector of their own work on clones: the caller's terms are never
\* changed.  The smart entry points change a term only by propagating it when
\* it is Dirty: once the call is made there are as many terms, each has as
\* many blocks as before, represents the same integer modulo
\* message_modulus^num_blocks and is Clean, and the terms that were Clean are
\* as they were.
C30_CallerTerms ==
    /\ op \notin SmartOps => ciphertexts = given
    /\ (op \in SmartOps /\ pc # "call")
          => /\ Len(ciphertexts) = Len(given)
             /\ \A t \in 1..Len(given) :
                   /\ Len(ciphertexts[t]) = Len(given[t])
                   /\ Decrypt(ciphertexts[t]) = Decrypt(given[t])
                   /\ IsCleanRadix(ciphertexts[t])
                   /\ block_carries_are_empty(given[t]) => ciphertexts[t] = given[t]

\* C30 witness: a smart sum of three or more terms returned; a term that was
\* Dirty is now Clean and represents the same integer, and a trivial zero
\* beside it is as it was.
C30_Witness ==
    /\ pc = "done" /\ op \in SmartOps /\ Len(given) >= 3
    /\ \E t \in 1..Len(given) :
          /\ ~block_carries_are_empty(given[t])
          /\ ciphertexts[t] # given[t]
          /\ IsCleanRadix(ciphertexts[t])
          /\ Decrypt(ciphertexts[t]) = Decrypt(given[t])
    /\ \E t \in 1..Len(given) :
          /\ given[t] = create_trivial_radix(0, NumBlocks)
          /\ ciphertexts[t] = given[t]

====
